---- MODULE Spec2Model ----
(***************************************************************************)
(* Elliptic-curve arithmetic of bitcoin_in_rust: finite-field elements,    *)
(* Weierstrass curves over F_p and over the integers, point construction,  *)
(* point addition and double-and-add scalar multiplication.                *)
(***************************************************************************)
EXTENDS Integers, Sequences, FiniteSets, TLC

(* ------------------------------ bounds --------------------------------- *)

\* largest field modulus explored (the primes are 2, 3, 5, 7)
MaxPrime == 7
\* largest field modulus of the runs that add pairs of points of any numerator
MaxPairPrime == 5
\* FieldElement::new stores any integer: numerators range over -Slack .. p-1+Slack
Slack == 1
\* scalars handed to Mul range over -NegScalar .. MaxScalar
MaxScalar == 8
NegScalar == 2
\* iterations of the Mul loop that are followed (it does not end for a negative scalar)
MaxIters == 6
\* integer-variant coefficients range over 0 .. IntCoef
IntCoef == 7
\* integer-variant coordinates handed to new_point and to Add: -IntCoord .. IntCoord
IntCoord == 5

\* primes and integer coefficients of the runs that bind points to two curves
MaxCrossPrime == 3
IntCrossCoef == 1
IntCrossCoord == 3

\* exponents handed to FieldElement::pow: -MaxExp .. MaxExp
MaxExp == 6

\* threads that may touch the secp256k1 statics at the same time
NumThreads == 2

\* coordinates handed to the const-generic Point: -CgCoord .. CgCoord
CgCoord == 2

IsPrime(n) == n > 1 /\ \A d \in 2..(n - 1) : n % d # 0
Primes == {n \in 2..MaxPrime : IsPrime(n)}

(* --------------------------- BigInt helpers ---------------------------- *)

\* num_bigint BigInt::modpow: base^exp mod modulus, rounding like mod_floor;
\* any base to the exponent 0 is 1 (0^0 included); by repeated squaring
RECURSIVE ModPow(_, _, _)
ModPow(base, exp, modulus) ==
    IF exp = 0 THEN 1 % modulus
    ELSE LET half == ModPow(base, exp \div 2, modulus)
             square == (half * half) % modulus
         IN  IF exp % 2 = 0 THEN square
             ELSE ((base % modulus) * square) % modulus

\* Integer::mod_floor for a positive modulus
ModFloor(n, modulus) == n % modulus

\* BigInt `%`: remainder of the truncated division, sign of the dividend
TruncRem(n, d) == IF n >= 0 THEN n % d ELSE -((-n) % d)

Abs(n) == IF n >= 0 THEN n ELSE -n

\* BigInt `/`: division truncated towards zero (d # 0)
TruncDiv(n, d) ==
    IF (n >= 0) = (d > 0) THEN Abs(n) \div Abs(d) ELSE -(Abs(n) \div Abs(d))

\* BigInt::pow for the exponents 2 and 3 the integer curve uses
RECURSIVE IntPow(_, _)
IntPow(n, e) == IF e = 0 THEN 1 ELSE n * IntPow(n, e - 1)

(* ----------------------------- FieldElement ---------------------------- *)

\* FieldElement::new: the numerator is stored as given, not reduced
FieldElement(num, prime) == [num |-> num, prime |-> prime]

\* outcome of an assert! that failed inside field arithmetic
FieldPanic == [num |-> 0, prime |-> 0]

IsFieldPanic(e) == e.prime = 0

FE_zero(prime) == [num |-> 0, prime |-> prime]

FE_is_zero(self) == self.num = 0

\* pow with the operands of modpow exchanged: exponent.modpow(num, prime)
FE_pow_swapped_operands(self, exp) ==
    IF IsFieldPanic(self) THEN FieldPanic
    ELSE LET prime_minus_one == self.prime - 1
             positive_exponent == ModFloor(exp, prime_minus_one)
         IN  FieldElement(ModPow(positive_exponent, self.num % self.prime, self.prime),
                          self.prime)

\* pow with the exponent reduced by `%` instead of mod_floor: modpow panics on
\* a negative exponent
FE_pow_truncated_exponent(self, exp) ==
    IF IsFieldPanic(self) THEN FieldPanic
    ELSE LET prime_minus_one == self.prime - 1
             exponent == TruncRem(exp, prime_minus_one)
         IN  IF exponent < 0 THEN FieldPanic
             ELSE FieldElement(ModPow(self.num, exponent, self.prime), self.prime)

FE_pow(self, exp) ==
    IF IsFieldPanic(self) THEN FieldPanic
    ELSE LET prime_minus_one == self.prime - 1
             positive_exponent == ModFloor(exp, prime_minus_one)
         IN  FieldElement(ModPow(self.num, positive_exponent, self.prime), self.prime)

FE_add(self, elem) ==
    IF IsFieldPanic(self) \/ IsFieldPanic(elem) \/ self.prime # elem.prime THEN FieldPanic
    ELSE FieldElement(ModFloor(self.num + elem.num, self.prime), self.prime)

\* sub reduced with `%` instead of mod_floor
FE_sub_truncated(self, elem) ==
    IF IsFieldPanic(self) \/ IsFieldPanic(elem) \/ self.prime # elem.prime THEN FieldPanic
    ELSE FieldElement(TruncRem(self.num - elem.num, self.prime), self.prime)

FE_sub(self, elem) ==
    IF IsFieldPanic(self) \/ IsFieldPanic(elem) \/ self.prime # elem.prime THEN FieldPanic
    ELSE FieldElement(ModFloor(self.num - elem.num, self.prime), self.prime)

FE_mul(self, elem) ==
    IF IsFieldPanic(self) \/ IsFieldPanic(elem) \/ self.prime # elem.prime THEN FieldPanic
    ELSE FieldElement(ModFloor(self.num * elem.num, self.prime), self.prime)

FE_div(self, elem) ==
    IF IsFieldPanic(self) \/ IsFieldPanic(elem) \/ self.prime # elem.prime THEN FieldPanic
    ELSE LET factor == ModPow(elem.num, self.prime - 2, self.prime)
         IN  FieldElement(TruncRem(self.num * factor, self.prime), self.prime)

(* ------------------------- curves and points --------------------------- *)

\* WeierstrassCurve { a, b } over F_p
WeierstrassCurve(a, b) == [kind |-> "field", a |-> a, b |-> b]

\* RealWeierstrassCurve { a, b } over the integers
RealWeierstrassCurve(a, b) == [kind |-> "int", a |-> a, b |-> b]

\* Coords::Infinity and Coords::Point(x, y)
Infinity == <<"Infinity">>
Affine(x, y) == <<"Point", x, y>>
IsInfinity(coords) == coords[1] = "Infinity"

\* traits::Point { coords, curve }
Point(coords, curve) == [coords |-> coords, curve |-> curve]

\* results: Ok(point), Err(InvalidPoint), or a panic of the process
Ok(point) == [tag |-> "Ok", val |-> point, divs |-> <<>>]
ErrInvalidPoint == [tag |-> "Err", val |-> Point(Infinity, "InvalidPoint"), divs |-> <<>>]
Panic == [tag |-> "Panic", val |-> Point(Infinity, "panic"), divs |-> <<>>]

\* a result together with the divisors that were handed to the division
WithDivs(res, divs) == [res EXCEPT !.divs = divs]

(* field variant: weierstrass_field_point.rs *)

defining_equation(curve, x, y) ==
    FE_sub(FE_sub(FE_sub(FE_pow(y, 2), FE_pow(x, 3)), FE_mul(curve.a, x)), curve.b)

new_point(curve, x, y) ==
    LET eq == defining_equation(curve, x, y)
    IN  IF IsFieldPanic(eq) THEN Panic
        ELSE IF eq # FE_zero(x.prime) THEN ErrInvalidPoint
        ELSE Ok(Point(Affine(x, y), curve))

new_infinity(curve) == Point(Infinity, curve)

\* Result::unwrap
unwrap(res) == IF res.tag = "Ok" THEN res ELSE Panic

\* PartialEq for Point<WeierstrassCurve>: coordinates only
point_eq(self, other) ==
    IF ~IsInfinity(self.coords) /\ ~IsInfinity(other.coords)
    THEN self.coords[2] = other.coords[2] /\ self.coords[3] = other.coords[3]
    ELSE IsInfinity(self.coords) /\ IsInfinity(other.coords)

\* the doubling arm with the slope parsed as (numerator / 2) * y1
add_doubling_unparenthesised(curve, x1, y1) ==
    LET prime == curve.a.prime
        numerator == FE_add(FE_mul(FieldElement(3, prime), FE_pow(x1, 2)), curve.a)
        slope == FE_mul(FE_div(numerator, FieldElement(2, prime)), y1)
        x3 == FE_sub(FE_pow(slope, 2), FE_mul(FieldElement(2, prime), x1))
        y3 == FE_sub(FE_mul(slope, FE_sub(x1, x3)), y1)
    IN  WithDivs(unwrap(new_point(curve, x3, y3)), <<FieldElement(2, prime)>>)

\* Add::add, doubling arm with y1 # 0: the tangent at (x1, y1)
add_doubling(curve, x1, y1) ==
    LET prime == curve.a.prime
        numerator == FE_add(FE_mul(FieldElement(3, prime), FE_pow(x1, 2)), curve.a)
        denominator == FE_mul(FieldElement(2, prime), y1)
        slope == FE_div(numerator, denominator)
        x3 == FE_sub(FE_pow(slope, 2), FE_mul(FieldElement(2, prime), x1))
        y3 == FE_sub(FE_mul(slope, FE_sub(x1, x3)), y1)
    IN  WithDivs(unwrap(new_point(curve, x3, y3)), <<denominator>>)

\* the chord arm without the reflection: the third point of the line itself
add_chord_unreflected(curve, x1, y1, x2, y2) ==
    LET slope == FE_div(FE_sub(y2, y1), FE_sub(x2, x1))
        x3 == FE_sub(FE_sub(FE_pow(slope, 2), x1), x2)
        y3 == FE_add(FE_mul(slope, FE_sub(x3, x1)), y1)
    IN  WithDivs(unwrap(new_point(curve, x3, y3)), <<FE_sub(x2, x1)>>)

\* the chord arm with the slope taken as (y2 - y1) / (x1 - x2)
add_chord_negated_slope(curve, x1, y1, x2, y2) ==
    LET slope == FE_div(FE_sub(y2, y1), FE_sub(x1, x2))
        x3 == FE_sub(FE_sub(FE_pow(slope, 2), x1), x2)
        y3 == FE_sub(FE_mul(slope, FE_sub(x1, x3)), y1)
    IN  WithDivs(unwrap(new_point(curve, x3, y3)), <<FE_sub(x1, x2)>>)

\* Add::add, arm x1 != x2: the chord through (x1, y1) and (x2, y2)
add_chord(curve, x1, y1, x2, y2) ==
    LET slope == FE_div(FE_sub(y2, y1), FE_sub(x2, x1))
        x3 == FE_sub(FE_sub(FE_pow(slope, 2), x1), x2)
        y3 == FE_sub(FE_mul(slope, FE_sub(x1, x3)), y1)
    IN  WithDivs(unwrap(new_point(curve, x3, y3)), <<FE_sub(x2, x1)>>)

\* Add::add with the first identity arm returning self instead of other
point_add_identity_self(self, other) ==
    IF self.curve # other.curve THEN Panic
    ELSE IF IsInfinity(self.coords) THEN Ok(self)
    ELSE IF IsInfinity(other.coords) THEN Ok(self)
    ELSE LET x1 == self.coords[2]
             y1 == self.coords[3]
             x2 == other.coords[2]
             y2 == other.coords[3]
         IN  IF x1 = x2
             THEN IF y1 = y2
                  THEN IF FE_is_zero(y1) THEN Ok(new_infinity(self.curve))
                       ELSE add_doubling(self.curve, x1, y1)
                  ELSE Ok(new_infinity(self.curve))
             ELSE add_chord(self.curve, x1, y1, x2, y2)

\* Add::add without the y1.is_zero() test of the doubling arm
point_add_no_zero_test(self, other) ==
    IF self.curve # other.curve THEN Panic
    ELSE IF IsInfinity(self.coords) THEN Ok(other)
    ELSE IF IsInfinity(other.coords) THEN Ok(self)
    ELSE LET x1 == self.coords[2]
             y1 == self.coords[3]
             x2 == other.coords[2]
             y2 == other.coords[3]
         IN  IF x1 = x2
             THEN IF y1 = y2
                  THEN add_doubling(self.curve, x1, y1)
                  ELSE Ok(new_infinity(self.curve))
             ELSE add_chord(self.curve, x1, y1, x2, y2)

\* Add::add with the vertical chord handed to the doubling arm
point_add_no_vertical(self, other) ==
    IF self.curve # other.curve THEN Panic
    ELSE IF IsInfinity(self.coords) THEN Ok(other)
    ELSE IF IsInfinity(other.coords) THEN Ok(self)
    ELSE LET x1 == self.coords[2]
             y1 == self.coords[3]
             x2 == other.coords[2]
             y2 == other.coords[3]
         IN  IF x1 = x2
             THEN IF FE_is_zero(y1) THEN Ok(new_infinity(self.curve))
                  ELSE add_doubling(self.curve, x1, y1)
             ELSE add_chord(self.curve, x1, y1, x2, y2)

\* impl Add for Point<WeierstrassCurve>
point_add(self, other) ==
    LET curve == self.curve
        curve_other == other.curve
    IN  IF curve # curve_other THEN Panic
        ELSE IF IsInfinity(self.coords) THEN Ok(other)
        ELSE IF IsInfinity(other.coords) THEN Ok(self)
        ELSE LET x1 == self.coords[2]
                 y1 == self.coords[3]
                 x2 == other.coords[2]
                 y2 == other.coords[3]
             IN  IF x1 = x2
                 THEN IF y1 = y2
                      THEN IF FE_is_zero(y1)
                           THEN Ok(new_infinity(curve))
                           ELSE add_doubling(curve, x1, y1)
                      ELSE Ok(new_infinity(curve))
                 ELSE add_chord(curve, x1, y1, x2, y2)

(* integer variant: weierstrass_integer_point.rs *)

int_defining_equation(curve, x, y) ==
    IntPow(y, 2) - IntPow(x, 3) - curve.a * x - curve.b

int_new_point(curve, x, y) ==
    IF int_defining_equation(curve, x, y) # 0 THEN ErrInvalidPoint
    ELSE Ok(Point(Affine(x, y), curve))

\* PartialEq for Point<RealWeierstrassCurve>: panics across curves
int_point_eq(self, other) ==
    IF self.curve # other.curve THEN "panic"
    ELSE IF ~IsInfinity(self.coords) /\ ~IsInfinity(other.coords)
    THEN IF self.coords[2] = other.coords[2] /\ self.coords[3] = other.coords[3]
         THEN "true" ELSE "false"
    ELSE IF IsInfinity(self.coords) /\ IsInfinity(other.coords) THEN "true" ELSE "false"

\* Add::add, doubling arm with y1 # 0, integer division
int_add_doubling(curve, x1, y1) ==
    LET numerator == 3 * IntPow(x1, 2) + curve.a
        denominator == 2 * y1
        slope == TruncDiv(numerator, denominator)
        x3 == IntPow(slope, 2) - (2 * x1)
        y3 == slope * (x1 - x3) - y1
    IN  WithDivs(unwrap(int_new_point(curve, x3, y3)), <<denominator>>)

\* Add::add, arm x1 != x2, integer division
int_add_chord(curve, x1, y1, x2, y2) ==
    LET slope == TruncDiv(y2 - y1, x2 - x1)
        x3 == IntPow(slope, 2) - x1 - x2
        y3 == slope * (x1 - x3) - y1
    IN  WithDivs(unwrap(int_new_point(curve, x3, y3)), <<x2 - x1>>)

\* impl Add for Point<RealWeierstrassCurve>
int_point_add(self, other) ==
    LET curve == self.curve
        curve_other == other.curve
    IN  IF curve # curve_other THEN Panic
        ELSE IF IsInfinity(self.coords) THEN Ok(other)
        ELSE IF IsInfinity(other.coords) THEN Ok(self)
        ELSE LET x1 == self.coords[2]
                 y1 == self.coords[3]
                 x2 == other.coords[2]
                 y2 == other.coords[3]
             IN  IF x1 = x2
                 THEN IF y1 = y2
                      THEN IF y1 = 0
                           THEN Ok(new_infinity(curve))
                           ELSE int_add_doubling(curve, x1, y1)
                      ELSE Ok(new_infinity(curve))
                 ELSE int_add_chord(curve, x1, y1, x2, y2)

(* const-generic integer variant: point.rs, Point<const A: i64, const B: i64> *)

\* the parameters A and B of the type, carried with each of its values
ConstCurve(a, b) == [kind |-> "const", a |-> a, b |-> b]

cg_new_point(A, B, x, y) ==
    IF IntPow(y, 2) # IntPow(x, 3) + A * x + B THEN ErrInvalidPoint
    ELSE Ok(Point(Affine(x, y), ConstCurve(A, B)))

\* `(3*&x1.pow(2) + A)/2*&y1`: `/` and `*` associate to the left
cg_slope(A, x1, y1) == TruncDiv(3 * IntPow(x1, 2) + A, 2) * y1

\* Add::add, arm P1 == P2 with y1 # 0
cg_add_doubling(A, B, x1, y1) ==
    LET slope == cg_slope(A, x1, y1)
        x3 == IntPow(slope, 2) - 2 * x1
        y3 == slope * (x1 - x3) - y1
    IN  unwrap(cg_new_point(A, B, x3, y3))

\* Add::add, arm x1 != x2
cg_add_chord(A, B, x1, y1, x2, y2) ==
    LET slope == TruncDiv(y2 - y1, x2 - x1)
        x3 == IntPow(slope, 2) - x1 - x2
        y3 == slope * (x1 - x3) - y1
    IN  unwrap(cg_new_point(A, B, x3, y3))

\* impl Add<Point<A, B>> for Point<A, B>
cg_point_add(self, other) ==
    LET A == self.curve.a
        B == self.curve.b
    IN  IF ~IsInfinity(self.coords) /\ ~IsInfinity(other.coords)
        THEN LET x1 == self.coords[2]
                 y1 == self.coords[3]
                 x2 == other.coords[2]
                 y2 == other.coords[3]
             IN  IF x1 = x2
                 THEN IF y1 = y2
                      THEN IF y1 = 0
                           THEN Ok(Point(Infinity, ConstCurve(A, B)))
                           ELSE cg_add_doubling(A, B, x1, y1)
                      ELSE Ok(Point(Infinity, ConstCurve(A, B)))
                 ELSE cg_add_chord(A, B, x1, y1, x2, y2)
        ELSE IF IsInfinity(other.coords) THEN Ok(self)
        ELSE Ok(other)

(* secp256k1.rs: the once_cell Lazy statics and what their closures read *)

\* the hexadecimal literals; a parsed BigInt is denoted by its literal
SECP256K1_PRIME_HEX == "FFFFFFFFFFFFFFFFFFFFFFFFFFFFFFFFFFFFFFFFFFFFFFFFFFFFFFFEFFFFFC2F"
SECP256K1_X_GENERATOR_HEX == "79BE667EF9DCBBAC55A06295CE870B07029BFCDB2DCE28D959F2815B16F81798"
SECP256K1_Y_GENERATOR_HEX == "483ADA7726A3C4655DA4FBFC0E1108A8FD17B448A68554199C47D08FFB10D4B8"
SECP256K1_ORDER_HEX == "FFFFFFFFFFFFFFFFFFFFFFFFFFFFFFFEBAAEDCE6AF48A03BBFD25E8CD0364141"

Statics ==
    {"SECP256K1_PRIME", "SECP256K1_A", "SECP256K1_B", "SECP256K1_CURVE",
     "SECP256K1_GX", "SECP256K1_GY", "SECP256K1_ORDER", "SECP256K1_GENERATOR"}

\* the statics a closure dereferences, in the order it does
Deps(c) ==
    CASE c = "SECP256K1_PRIME" -> <<>>
      [] c = "SECP256K1_A" -> <<"SECP256K1_PRIME">>
      [] c = "SECP256K1_B" -> <<"SECP256K1_PRIME">>
      [] c = "SECP256K1_CURVE" -> <<"SECP256K1_A", "SECP256K1_B">>
      [] c = "SECP256K1_GX" -> <<"SECP256K1_PRIME">>
      [] c = "SECP256K1_GY" -> <<"SECP256K1_PRIME">>
      [] c = "SECP256K1_ORDER" -> <<>>
      [] c = "SECP256K1_GENERATOR" -> <<"SECP256K1_CURVE", "SECP256K1_GX", "SECP256K1_GY">>

\* the value a closure builds from the values vals[d][1] its dereferences
\* returned; the generator lies on the curve, so its unwrap returns the point
InitValue(c, vals) ==
    CASE c = "SECP256K1_PRIME" -> SECP256K1_PRIME_HEX
      [] c = "SECP256K1_A" -> FieldElement(0, vals["SECP256K1_PRIME"][1])
      [] c = "SECP256K1_B" -> FieldElement(7, vals["SECP256K1_PRIME"][1])
      [] c = "SECP256K1_CURVE" ->
            WeierstrassCurve(vals["SECP256K1_A"][1], vals["SECP256K1_B"][1])
      [] c = "SECP256K1_GX" ->
            FieldElement(SECP256K1_X_GENERATOR_HEX, vals["SECP256K1_PRIME"][1])
      [] c = "SECP256K1_GY" ->
            FieldElement(SECP256K1_Y_GENERATOR_HEX, vals["SECP256K1_PRIME"][1])
      [] c = "SECP256K1_ORDER" -> SECP256K1_ORDER_HEX
      [] c = "SECP256K1_GENERATOR" ->
            Point(Affine(vals["SECP256K1_GX"][1], vals["SECP256K1_GY"][1]),
                  vals["SECP256K1_CURVE"][1])

Threads == 1..NumThreads

\* the statics the code outside the closures dereferences (the tests)
Entry == {"SECP256K1_CURVE", "SECP256K1_GENERATOR", "SECP256K1_ORDER"}

(* ------------------------- the state machine --------------------------- *)

VARIABLES
    curve,      \* the curve every point of the run is bound to
    P, Q, R,    \* three point values of the caller
    status,     \* "running", or "aborted" once a panic unwound the process
    call,       \* the caller's last operator call: its operands and the tag it returned
    args,       \* the coordinates handed to the last recorded new_point call
    pc,         \* Mul::mul: "idle", "loop" (inside while), "done" (returned)
    scalar,     \* Mul::mul: the coefficient it was called with
    coeff,      \* Mul::mul: local `coeff`
    current,    \* Mul::mul: local `current`
    result,     \* Mul::mul: local `result`
    iters,      \* Mul::mul: iterations of the while loop so far
    adds,       \* Mul::mul: conditional additions so far
    dbls,       \* Mul::mul: doublings so far
    elemA,      \* a FieldElement of the caller, and the result of its last operator
    elemB,      \* a second FieldElement of the caller
    arith,      \* the caller's last FieldElement operator call and how it ended
    cellState,  \* secp256k1 statics: "incomplete", "running" or "complete" per Lazy
    cellValue,  \* secp256k1 statics: <<>> or <<value>> per Lazy
    initRuns,   \* secp256k1 statics: how often each initializer closure has run
    frames,     \* per thread: the stack of Lazy cells it is forcing
    observed    \* per thread: the last <<static, value>> a deref returned to it

vars == <<curve, P, Q, R, status, call, args, pc, scalar, coeff, current, result,
          iters, adds, dbls, elemA, elemB, arith,
          cellState, cellValue, initRuns, frames, observed>>

regVars == <<P, Q, R>>
mulVars == <<pc, scalar, coeff, current, result, iters, adds, dbls>>
feVars == <<elemA, elemB, arith>>
lazyVars == <<cellState, cellValue, initRuns, frames, observed>>

Regs == {"P", "Q", "R"}

\* numerators a caller may hand to FieldElement::new for the modulus p
FieldNums(p) == (-Slack)..(p - 1 + Slack)

CurvesOver(p) ==
    {WeierstrassCurve(FieldElement(a, p), FieldElement(b, p)) :
        a \in 0..(p - 1), b \in 0..(p - 1)}

FieldCurves == UNION {CurvesOver(p) : p \in Primes}

PairCurves == UNION {CurvesOver(p) : p \in {q \in Primes : q <= MaxPairPrime}}

IntCurves == {RealWeierstrassCurve(a, b) : a \in 0..IntCoef, b \in 0..IntCoef}

IntNums == (-IntCoord)..IntCoord

NoCall == [op |-> "none", tag |-> "none"]

\* the caller's field elements before it builds any: FieldElement::zero of F_2
NoElement == FE_zero(2)

InitLocals ==
    /\ P = new_infinity(curve)
    /\ Q = new_infinity(curve)
    /\ R = new_infinity(curve)
    /\ status = "running"
    /\ call = NoCall
    /\ args = <<>>
    /\ pc = "idle"
    /\ scalar = 0
    /\ coeff = 0
    /\ current = new_infinity(curve)
    /\ result = new_infinity(curve)
    /\ iters = 0
    /\ adds = 0
    /\ dbls = 0
    /\ elemA = NoElement
    /\ elemB = NoElement
    /\ arith = NoCall
    /\ cellState = [c \in Statics |-> "incomplete"]
    /\ cellValue = [c \in Statics |-> <<>>]
    /\ initRuns = [c \in Statics |-> 0]
    /\ frames = [t \in Threads |-> <<>>]
    /\ observed = [t \in Threads |-> <<>>]

\* a curve of either variant has been constructed, no point yet
Init ==
    /\ \/ curve \in PairCurves
       \/ curve \in IntCurves
    /\ InitLocals

\* a field curve has been constructed, no point yet
InitField ==
    /\ curve \in FieldCurves
    /\ InitLocals

SetReg(r, v) ==
    /\ P' = IF r = "P" THEN v ELSE P
    /\ Q' = IF r = "Q" THEN v ELSE Q
    /\ R' = IF r = "R" THEN v ELSE R

Idle == status = "running" /\ pc = "idle"

\* the caller's outcome of a constructor that returned res into register r;
\* an Err leaves the caller's point as it was
Constructed(r, res) ==
    /\ call' = NoCall
    /\ IF res.tag = "Ok" THEN SetReg(r, res.val) ELSE UNCHANGED regVars
    /\ status' = IF res.tag = "Panic" THEN "aborted" ELSE status

\* the caller's outcome of lhs + rhs that returned res into register r
Added(r, lhs, rhs, res) ==
    /\ call' = [op |-> "add", tag |-> res.tag, lhs |-> lhs, rhs |-> rhs]
    /\ IF res.tag = "Ok" THEN SetReg(r, res.val) ELSE UNCHANGED regVars
    /\ status' = IF res.tag = "Panic" THEN "aborted" ELSE status

\* r = Point::new_point(&curve, &FieldElement::new(x, p), &FieldElement::new(y, p))
FieldNewPoint(r, x, y) ==
    /\ Idle /\ curve.kind = "field"
    /\ LET p == curve.a.prime
       IN  Constructed(r, new_point(curve, FieldElement(x, p), FieldElement(y, p)))
    /\ UNCHANGED <<curve, lazyVars, feVars, args, mulVars>>

\* r = Point::new_point(&curve, &x, &y) on the integer curve
IntNewPoint(r, x, y) ==
    /\ Idle /\ curve.kind = "int"
    /\ Constructed(r, int_new_point(curve, x, y))
    /\ UNCHANGED <<curve, lazyVars, feVars, args, mulVars>>

\* r = Point::new_infinity(&curve), either variant
NewInfinity(r) ==
    /\ Idle
    /\ Constructed(r, Ok(new_infinity(curve)))
    /\ UNCHANGED <<curve, lazyVars, feVars, args, mulVars>>

\* r = P + Q in the field variant
FieldAdd(r) ==
    /\ Idle /\ curve.kind = "field"
    /\ Added(r, P, Q, point_add(P, Q))
    /\ UNCHANGED <<curve, lazyVars, feVars, args, mulVars>>

IntInRange(pt) ==
    IF IsInfinity(pt.coords) THEN TRUE
    ELSE pt.coords[2] \in IntNums /\ pt.coords[3] \in IntNums

\* r = P + Q in the integer variant
IntAdd(r) ==
    /\ Idle /\ curve.kind = "int"
    /\ IntInRange(P) /\ IntInRange(Q)
    /\ Added(r, P, Q, int_point_add(P, Q))
    /\ UNCHANGED <<curve, lazyVars, feVars, args, mulVars>>

\* r = Point::new_point(..).unwrap_or(Point::new_infinity(..)); the caller keeps
\* the coordinates it passed and the tag of the Result
RecordedNewPoint(r, x, y) ==
    /\ Idle /\ curve.kind = "field"
    /\ LET p == curve.a.prime
           res == new_point(curve, FieldElement(x, p), FieldElement(y, p))
       IN  /\ call' = [op |-> "new_point", tag |-> res.tag]
           /\ SetReg(r, IF res.tag = "Ok" THEN res.val ELSE new_infinity(curve))
           /\ status' = IF res.tag = "Panic" THEN "aborted" ELSE status
    /\ args' = <<x, y>>
    /\ UNCHANGED <<curve, lazyVars, feVars, mulVars>>

(* points bound to a curve of the caller's choice, and their comparison *)

CrossFieldCurves == UNION {CurvesOver(p) : p \in {q \in Primes : q <= MaxCrossPrime}}

CrossIntCurves ==
    {RealWeierstrassCurve(a, b) : a \in 0..IntCrossCoef, b \in 0..IntCrossCoef}

CrossIntNums == (-IntCrossCoord)..IntCrossCoord

\* a curve of either variant has been constructed, no point yet
InitCross ==
    /\ \/ curve \in CrossFieldCurves
       \/ curve \in CrossIntCurves
    /\ InitLocals

\* r = Point::new_point(&c, &FieldElement::new(x, p), &FieldElement::new(y, p))
\* for a field curve c that need not be the first curve of the run
FieldNewPointOn(r, c, x, y) ==
    /\ Idle /\ curve.kind = "field"
    /\ LET p == c.a.prime
       IN  Constructed(r, new_point(c, FieldElement(x, p), FieldElement(y, p)))
    /\ UNCHANGED <<curve, lazyVars, feVars, args, mulVars>>

\* r = Point::new_point(&c, &x, &y) for an integer curve c
IntNewPointOn(r, c, x, y) ==
    /\ Idle /\ curve.kind = "int"
    /\ Constructed(r, int_new_point(c, x, y))
    /\ UNCHANGED <<curve, lazyVars, feVars, args, mulVars>>

\* r = Point::new_infinity(&c)
NewInfinityOn(r, c) ==
    /\ Idle
    /\ Constructed(r, Ok(new_infinity(c)))
    /\ UNCHANGED <<curve, lazyVars, feVars, args, mulVars>>

\* the caller's outcome of lhs == rhs: a boolean, or a panic of the process
Compared(lhs, rhs, tag) ==
    /\ call' = [op |-> "eq", tag |-> tag, lhs |-> lhs, rhs |-> rhs]
    /\ status' = IF tag = "Panic" THEN "aborted" ELSE status
    /\ UNCHANGED regVars

\* P == Q in the field variant
FieldEq ==
    /\ Idle /\ curve.kind = "field"
    /\ Compared(P, Q, IF point_eq(P, Q) THEN "true" ELSE "false")
    /\ UNCHANGED <<curve, lazyVars, feVars, args, mulVars>>

\* P == Q in the integer variant
IntEq ==
    /\ Idle /\ curve.kind = "int"
    /\ Compared(P, Q, IF int_point_eq(P, Q) = "panic" THEN "Panic" ELSE int_point_eq(P, Q))
    /\ UNCHANGED <<curve, lazyVars, feVars, args, mulVars>>

(* curves built from any two field elements *)

\* WeierstrassCurve { a, b } for any two field elements: no constructor checks
\* the primes
AnyCurves ==
    {WeierstrassCurve(FieldElement(a, p), FieldElement(b, q)) :
        a \in 0..(MaxPairPrime - 1), b \in 0..(MaxPairPrime - 1),
        p \in {n \in Primes : n <= MaxPairPrime}, q \in {n \in Primes : n <= MaxPairPrime}}

\* a curve has been constructed from two field elements, no point yet
InitAnyCurve ==
    /\ curve \in {c \in AnyCurves : c.a.num < c.a.prime /\ c.b.num < c.b.prime}
    /\ InitLocals

(* the const-generic Point of point.rs *)

ConstCurves == {ConstCurve(a, b) : a \in 0..IntCoef, b \in 0..IntCoef}

CgNums == (-CgCoord)..CgCoord

\* a type Point<A, B> has been chosen, no point yet
InitConst ==
    /\ curve \in ConstCurves
    /\ InitLocals

\* r = Point::<A, B>::new_point(x, y)
CgNewPoint(r, x, y) ==
    /\ Idle /\ curve.kind = "const"
    /\ Constructed(r, cg_new_point(curve.a, curve.b, x, y))
    /\ UNCHANGED <<curve, lazyVars, feVars, args, mulVars>>

\* r = Point::<A, B>::new_infinity()
CgNewInfinity(r) ==
    /\ Idle /\ curve.kind = "const"
    /\ Constructed(r, Ok(Point(Infinity, curve)))
    /\ UNCHANGED <<curve, lazyVars, feVars, args, mulVars>>

CgInRange(pt) ==
    IF IsInfinity(pt.coords) THEN TRUE
    ELSE pt.coords[2] \in CgNums /\ pt.coords[3] \in CgNums

\* r = P + Q with the Add of point.rs, on points within the coordinate bound
CgAdd(r) ==
    /\ Idle /\ curve.kind = "const"
    /\ CgInRange(P) /\ CgInRange(Q)
    /\ Added(r, P, Q, cg_point_add(P, Q))
    /\ UNCHANGED <<curve, lazyVars, feVars, args, mulVars>>

(* FieldElement values of a caller and the operators applied to them *)

SetElem(r, v) ==
    /\ elemA' = IF r = "A" THEN v ELSE elemA
    /\ elemB' = IF r = "B" THEN v ELSE elemB

\* r = FieldElement::new(n, p)
ElemNew(r, n, p) ==
    /\ Idle
    /\ SetElem(r, FieldElement(n, p))
    /\ arith' = [op |-> "new", tag |-> "Ok"]
    /\ UNCHANGED <<curve, lazyVars, regVars, status, call, args, mulVars>>

\* the caller's outcome of elemA <op> elemB that returned res: elemA takes the
\* result, or the failed assert! unwinds the process
Applied(op, res) ==
    /\ arith' = [op |-> op, tag |-> IF IsFieldPanic(res) THEN "Panic" ELSE "Ok",
                 lhs |-> elemA, rhs |-> elemB]
    /\ elemA' = IF IsFieldPanic(res) THEN elemA ELSE res
    /\ status' = IF IsFieldPanic(res) THEN "aborted" ELSE status
    /\ UNCHANGED <<curve, lazyVars, regVars, elemB, call, args, mulVars>>

\* elemA = elemA + elemB
ElemAdd == Idle /\ Applied("add", FE_add(elemA, elemB))

\* elemA = elemA - elemB
ElemSub == Idle /\ Applied("sub", FE_sub(elemA, elemB))

\* elemA = elemA * elemB
ElemMul == Idle /\ Applied("mul", FE_mul(elemA, elemB))

\* elemA = elemA / elemB
ElemDiv == Idle /\ Applied("div", FE_div(elemA, elemB))

\* elemA = elemA.pow(&exp)
ElemPow(exp) ==
    /\ Idle
    /\ arith' = [op |-> "pow", tag |-> "Ok", lhs |-> elemA, exp |-> exp]
    /\ elemA' = FE_pow(elemA, exp)
    /\ UNCHANGED <<curve, lazyVars, regVars, elemB, status, call, args, mulVars>>

(* once_cell::sync::Lazy: deref forces the cell; a frame is <<static, step>>,
   step 0 before the cell's state was read, step i >= 1 inside its closure *)

Top(t) == frames[t][Len(frames[t])]

Pop(t) == SubSeq(frames[t], 1, Len(frames[t]) - 1)

\* thread t dereferences the static c from the code of a test
LazyAccess(t, c) ==
    /\ status = "running"
    /\ frames[t] = <<>>
    /\ frames' = [frames EXCEPT ![t] = <<<<c, 0>>>>]
    /\ UNCHANGED <<curve, regVars, status, call, args, mulVars, feVars,
                   cellState, cellValue, initRuns, observed>>

\* Lazy::force without the "running" state: a thread that finds the cell not
\* complete runs the closure itself
LazyForce_unguarded(t) ==
    /\ status = "running"
    /\ frames[t] # <<>>
    /\ Top(t)[2] = 0
    /\ LET c == Top(t)[1]
       IN  IF cellState[c] = "complete"
           THEN /\ frames' = [frames EXCEPT ![t] = Pop(t)]
                /\ observed' = [observed EXCEPT ![t] = <<c, cellValue[c][1]>>]
                /\ UNCHANGED cellState
           ELSE /\ cellState' = [cellState EXCEPT ![c] = "running"]
                /\ frames' = [frames EXCEPT ![t] = Append(Pop(t), <<c, 1>>)]
                /\ UNCHANGED observed
    /\ UNCHANGED <<curve, regVars, status, call, args, mulVars, feVars,
                   cellValue, initRuns>>

\* Lazy::force: a complete cell returns its value; an incomplete cell is taken
\* by this thread, which will run the closure; a cell that another thread is
\* initializing blocks this thread until it is complete
LazyForce(t) ==
    /\ status = "running"
    /\ frames[t] # <<>>
    /\ Top(t)[2] = 0
    /\ LET c == Top(t)[1]
       IN  /\ cellState[c] # "running"
           /\ IF cellState[c] = "complete"
              THEN /\ frames' = [frames EXCEPT ![t] = Pop(t)]
                   /\ observed' = [observed EXCEPT ![t] = <<c, cellValue[c][1]>>]
                   /\ UNCHANGED cellState
              ELSE /\ cellState' = [cellState EXCEPT ![c] = "running"]
                   /\ frames' = [frames EXCEPT ![t] = Append(Pop(t), <<c, 1>>)]
                   /\ UNCHANGED observed
    /\ UNCHANGED <<curve, regVars, status, call, args, mulVars, feVars,
                   cellValue, initRuns>>

\* one step of the closure of the cell thread t is initializing: dereference
\* the next static it reads, or build the value, store it and mark the cell
\* complete
LazyInit(t) ==
    /\ status = "running"
    /\ frames[t] # <<>>
    /\ Top(t)[2] >= 1
    /\ LET c == Top(t)[1]
           i == Top(t)[2]
       IN  IF i <= Len(Deps(c))
           THEN /\ frames' = [frames EXCEPT
                                 ![t] = Pop(t) \o <<<<c, i + 1>>, <<Deps(c)[i], 0>>>>]
                /\ UNCHANGED <<cellState, cellValue, initRuns, observed>>
           ELSE /\ cellValue' = [cellValue EXCEPT ![c] = <<InitValue(c, cellValue)>>]
                /\ cellState' = [cellState EXCEPT ![c] = "complete"]
                /\ initRuns' = [initRuns EXCEPT ![c] = @ + 1]
                /\ frames' = [frames EXCEPT ![t] = Pop(t)]
                /\ observed' = [observed EXCEPT ![t] = <<c, InitValue(c, cellValue)>>]
    /\ UNCHANGED <<curve, regVars, status, call, args, mulVars, feVars>>

(* the curve and the points of the tests: y^2 = x^3 + 7 over F_223 *)

RefPrime == 223
RefA == 0
RefB == 7
\* the largest scalar of test_scalar_multiplication_sequence
RefLastScalar == 22

RefCurve == WeierstrassCurve(FieldElement(RefA, RefPrime), FieldElement(RefB, RefPrime))

\* the coordinates the tests construct points from
RefPoints ==
    {<<47, 71>>, <<192, 105>>, <<17, 56>>, <<170, 142>>, <<60, 139>>,
     <<143, 98>>, <<76, 66>>, <<15, 86>>}

\* the test curve has been constructed, no point yet
InitRef ==
    /\ curve = RefCurve
    /\ InitLocals

(* Mul::mul, weierstrass_field_point.rs: one action per step of the function *)

\* P * k is called: the locals are initialised
MulStart(k) ==
    /\ Idle /\ curve.kind = "field"
    /\ pc' = "loop"
    /\ scalar' = k
    /\ coeff' = k
    /\ current' = P
    /\ result' = new_infinity(P.curve)
    /\ iters' = 0 /\ adds' = 0 /\ dbls' = 0
    /\ call' = [op |-> "mul", tag |-> "none"]
    /\ UNCHANGED <<curve, lazyVars, feVars, regVars, status, args>>

\* a shift that rounds towards zero, as the division of BigInt does
ShiftRight_truncating(n) == TruncDiv(n, 2)

\* `coeff >>= 1` on a BigInt: the arithmetic shift, rounding towards minus
\* infinity
ShiftRight(n) == n \div 2

\* one iteration of `while coeff != 0`; a panic of either addition ends the process
MulIter ==
    /\ status = "running" /\ pc = "loop"
    /\ coeff # 0
    /\ iters < MaxIters
    /\ LET bit == coeff % 2
           sum == IF bit # 0 THEN point_add(result, current) ELSE Ok(result)
           dbl == point_add(current, current)
       IN  IF sum.tag # "Ok"
           THEN /\ status' = "aborted"
                /\ call' = [op |-> "mul", tag |-> "Panic"]
                /\ UNCHANGED <<coeff, current, result, iters, adds, dbls>>
           ELSE /\ result' = sum.val
                /\ adds' = IF bit # 0 THEN adds + 1 ELSE adds
                /\ coeff' = ShiftRight(coeff)
                /\ IF dbl.tag # "Ok"
                   THEN /\ status' = "aborted"
                        /\ call' = [op |-> "mul", tag |-> "Panic"]
                        /\ UNCHANGED <<current, iters, dbls>>
                   ELSE /\ current' = dbl.val
                        /\ dbls' = dbls + 1
                        /\ iters' = iters + 1
                        /\ UNCHANGED <<status, call>>
    /\ UNCHANGED <<curve, lazyVars, feVars, regVars, args, pc, scalar>>

\* the loop condition fails: `result` is returned
MulExit ==
    /\ status = "running" /\ pc = "loop"
    /\ coeff = 0
    /\ pc' = "done"
    /\ call' = [op |-> "mul", tag |-> "Ok"]
    /\ UNCHANGED <<curve, lazyVars, feVars, regVars, status, args, scalar, coeff, current, result,
                   iters, adds, dbls>>

\* the caller has taken the product; the locals of the call are gone
MulReturn ==
    /\ status = "running" /\ pc = "done"
    /\ pc' = "idle"
    /\ scalar' = 0 /\ coeff' = 0
    /\ current' = new_infinity(curve)
    /\ result' = new_infinity(curve)
    /\ iters' = 0 /\ adds' = 0 /\ dbls' = 0
    /\ UNCHANGED <<curve, lazyVars, feVars, regVars, status, call, args>>

(* ---------------------------- specifications --------------------------- *)

\* two points of either variant are constructed, P may take P + Q
PairRegs == {"P", "Q"}

Next ==
    \/ \E r \in PairRegs, x \in FieldNums(MaxPairPrime), y \in FieldNums(MaxPairPrime) :
          /\ curve.kind = "field"
          /\ x \in FieldNums(curve.a.prime) /\ y \in FieldNums(curve.a.prime)
          /\ FieldNewPoint(r, x, y)
    \/ \E r \in PairRegs, x \in IntNums, y \in IntNums : IntNewPoint(r, x, y)
    \/ \E r \in PairRegs : NewInfinity(r)
    \/ FieldAdd("P")
    \/ IntAdd("P")

Spec == Init /\ [][Next]_vars

\* new_point is called on every pair of numerators
NextNew ==
    \E x \in FieldNums(MaxPrime), y \in FieldNums(MaxPrime) :
        /\ x \in FieldNums(curve.a.prime) /\ y \in FieldNums(curve.a.prime)
        /\ RecordedNewPoint("P", x, y)

SpecNew == InitField /\ [][NextNew]_vars

\* three points with coordinates in 0 .. p-1 are constructed, R may take P + Q
NextAssoc ==
    \/ \E r \in Regs, x \in 0..(MaxPrime - 1), y \in 0..(MaxPrime - 1) :
          /\ x < curve.a.prime /\ y < curve.a.prime
          /\ FieldNewPoint(r, x, y)
    \/ \E r \in Regs : NewInfinity(r)
    \/ FieldAdd("R")

SpecAssoc == InitField /\ [][NextAssoc]_vars

\* a point is constructed and multiplied by a scalar
NextMul ==
    \/ \E x \in FieldNums(MaxPrime), y \in FieldNums(MaxPrime) :
          /\ x \in FieldNums(curve.a.prime) /\ y \in FieldNums(curve.a.prime)
          /\ FieldNewPoint("P", x, y)
    \/ \E k \in (-NegScalar)..MaxScalar : MulStart(k)
    \/ MulIter
    \/ MulExit
    \/ MulReturn

SpecMul == InitField /\ [][NextMul]_vars

\* P is bound to the first curve, Q to any curve; P may take P + Q, and the
\* two are compared
NextCross ==
    \/ \E x \in 0..(MaxCrossPrime - 1), y \in 0..(MaxCrossPrime - 1) :
          /\ curve.kind = "field"
          /\ x < curve.a.prime /\ y < curve.a.prime
          /\ FieldNewPoint("P", x, y)
    \/ \E c \in CrossFieldCurves :
          \E x \in 0..(c.a.prime - 1), y \in 0..(c.a.prime - 1) :
              FieldNewPointOn("Q", c, x, y)
    \/ \E x \in CrossIntNums, y \in CrossIntNums : IntNewPoint("P", x, y)
    \/ \E c \in CrossIntCurves, x \in CrossIntNums, y \in CrossIntNums :
          IntNewPointOn("Q", c, x, y)
    \/ NewInfinity("P")
    \/ \E c \in CrossFieldCurves : curve.kind = "field" /\ NewInfinityOn("Q", c)
    \/ \E c \in CrossIntCurves : curve.kind = "int" /\ NewInfinityOn("Q", c)
    \/ FieldAdd("P")
    \/ IntAdd("P")
    \/ FieldEq
    \/ IntEq

SpecCross == InitCross /\ [][NextCross]_vars

\* a point of the tests is constructed and multiplied by a scalar
NextRefMul ==
    \/ \E c \in RefPoints : FieldNewPoint("P", c[1], c[2])
    \/ \E k \in 0..RefLastScalar : MulStart(k)
    \/ MulIter
    \/ MulExit
    \/ MulReturn

SpecRefMul == InitRef /\ [][NextRefMul]_vars

\* two points of the tests are constructed, R may take P + Q
NextRefAdd ==
    \/ \E r \in PairRegs, c \in RefPoints : FieldNewPoint(r, c[1], c[2])
    \/ FieldAdd("R")

SpecRefAdd == InitRef /\ [][NextRefAdd]_vars

\* two field elements are built from any numerators and primes and combined
NextElem ==
    \/ \E r \in {"A", "B"}, p \in Primes :
          \E n \in FieldNums(p) : ElemNew(r, n, p)
    \/ ElemAdd
    \/ ElemSub
    \/ ElemMul
    \/ ElemDiv
    \/ \E exp \in (-MaxExp)..MaxExp : ElemPow(exp)

SpecElem == InitRef /\ [][NextElem]_vars

\* threads dereference the secp256k1 statics, for the first time or again, in
\* any interleaving; a thread that can take a step eventually takes it
NextLazy ==
    \/ \E t \in Threads, c \in Entry : LazyAccess(t, c)
    \/ \E t \in Threads : LazyForce(t)
    \/ \E t \in Threads : LazyInit(t)

SpecLazy ==
    /\ InitRef
    /\ [][NextLazy]_vars
    /\ \A t \in Threads : WF_vars(LazyForce(t)) /\ WF_vars(LazyInit(t))

\* two points of one type Point<A, B> are constructed, P may take P + Q
NextConst ==
    \/ \E r \in PairRegs, x \in CgNums, y \in CgNums : CgNewPoint(r, x, y)
    \/ \E r \in PairRegs : CgNewInfinity(r)
    \/ CgAdd("P")

SpecConst == InitConst /\ [][NextConst]_vars

\* points are made on a curve built from any two field elements
NextAnyCurve ==
    \/ \E r \in PairRegs, x \in 0..(MaxPairPrime - 1), y \in 0..(MaxPairPrime - 1) :
          /\ x < curve.a.prime /\ y < curve.a.prime
          /\ FieldNewPoint(r, x, y)
    \/ \E r \in PairRegs : NewInfinity(r)

SpecAnyCurve == InitAnyCurve /\ [][NextAnyCurve]_vars

(* ------------------------------- claims -------------------------------- *)

\* the modulus of the field curve of the run
Modulus == curve.a.prime

\* y^2 = x^3 + a*x + b modulo p, in the integers
OnCurveMod(x, y) ==
    (y * y - x * x * x - curve.a.num * x - curve.b.num) % Modulus = 0

\* 4a^3 + 27b^2 is not 0 modulo p
NonSingular ==
    (4 * curve.a.num * curve.a.num * curve.a.num + 27 * curve.b.num * curve.b.num)
        % Modulus # 0

\* the coordinates of pt are residues in 0 .. p-1
InField(pt) ==
    IF IsInfinity(pt.coords) THEN TRUE
    ELSE /\ pt.coords[2].num \in 0..(Modulus - 1)
         /\ pt.coords[3].num \in 0..(Modulus - 1)

IsAffine(pt) == ~IsInfinity(pt.coords)

\* the addition and the equality of the variant of the run
AddOf(self, other) ==
    IF curve.kind = "field" THEN point_add(self, other) ELSE int_point_add(self, other)

EqOf(self, other) ==
    IF curve.kind = "field" THEN point_eq(self, other)
    ELSE int_point_eq(self, other) = "true"

YIsZero(pt) ==
    IF curve.kind = "field" THEN pt.coords[3].num = 0 ELSE pt.coords[3] = 0

\* the sum of two results; a panic on either side is a panic
AddRes(l, r) ==
    IF l.tag # "Ok" \/ r.tag # "Ok" THEN Panic ELSE point_add(l.val, r.val)

\* Infinity, then pt added k times
RECURSIVE RepeatedAdd(_, _)
RepeatedAdd(pt, k) ==
    IF k = 0 THEN Ok(new_infinity(pt.curve))
    ELSE AddRes(RepeatedAdd(pt, k - 1), Ok(pt))

\* number of binary digits of k >= 0
RECURSIVE BitLen(_)
BitLen(k) == IF k = 0 THEN 0 ELSE 1 + BitLen(k \div 2)

\* C1: for every prime p (2 and 3 included), every curve over F_p and every
\* x, y in 0 .. p-1, new_point returns Ok((x, y)) exactly when
\* y^2 = x^3 + a*x + b modulo p, and Err(InvalidPoint) otherwise.
C1_NewPointIffOnCurve ==
    (/\ call.op = "new_point"
     /\ args[1] \in 0..(Modulus - 1)
     /\ args[2] \in 0..(Modulus - 1))
    => IF OnCurveMod(args[1], args[2])
       THEN /\ call.tag = "Ok"
            /\ P.coords = Affine(FieldElement(args[1], Modulus),
                                 FieldElement(args[2], Modulus))
       ELSE call.tag = "Err"

\* C2: in the field variant, adding two points that new_point or new_infinity
\* returned on the same curve never aborts: every addition returns a point.
C2_FieldAddNeverAborts ==
    (curve.kind = "field" /\ call.op = "add") => call.tag = "Ok"

\* C3: in the integer variant, adding two valid points of the same curve never
\* aborts: every addition returns a point.
C3_IntAddNeverAborts ==
    (curve.kind = "int" /\ call.op = "add") => call.tag = "Ok"

\* C4: for every valid point P and scalar k >= 0, P * k is the point obtained
\* from Infinity by adding P to it k times: Mul returns, and returns that point.
C4_MulIsRepeatedAdd ==
    (pc # "idle" /\ scalar >= 0)
    => LET rep == RepeatedAdd(P, scalar)
       IN  /\ status # "aborted"
           /\ rep.tag = "Ok"
           /\ pc = "done" => point_eq(result, rep.val)

\* C5: for every scalar k >= 0 the loop of Mul ends with the remaining scalar 0
\* after exactly BitLen(k) iterations, with at most BitLen(k) additions and
\* BitLen(k) doublings; it is never cut short by a panic.
C5_MulLoopBitLen ==
    (pc # "idle" /\ scalar >= 0)
    => /\ status # "aborted"
       /\ iters + BitLen(coeff) = BitLen(scalar)
       /\ adds <= iters
       /\ dbls = iters
       /\ pc = "done" => (coeff = 0 /\ iters = BitLen(scalar))

\* C6: in both variants, P + Infinity == P and Infinity + P == P for every
\* point P the caller holds, affine or Infinity.
C6_InfinityIsIdentity ==
    \A pt \in {P, Q} :
        LET inf == new_infinity(curve)
            right == AddOf(pt, inf)
            left == AddOf(inf, pt)
        IN  /\ right.tag = "Ok" /\ EqOf(right.val, pt)
            /\ left.tag = "Ok" /\ EqOf(left.val, pt)

\* C6 witness: an affine point was added to Infinity and came back
C6_Witness ==
    /\ call.op = "add" /\ call.tag = "Ok"
    /\ IsAffine(call.lhs) /\ IsInfinity(call.rhs.coords)
    /\ P = call.lhs

\* C7: over F_p with p > 3, on a non-singular curve, for all points P, Q, R of
\* the curve with coordinates in F_p (Infinity included),
\* (P + Q) + R == P + (Q + R), and neither side aborts.
C7_AddAssociative ==
    (/\ Modulus > 3 /\ NonSingular
     /\ InField(P) /\ InField(Q) /\ InField(R))
    => LET l == AddRes(point_add(P, Q), Ok(R))
           r == AddRes(Ok(P), point_add(Q, R))
       IN  l.tag = "Ok" /\ r.tag = "Ok" /\ point_eq(l.val, r.val)

\* C7 witness: R is the affine sum of two affine points with different x, and
\* the threefold sum is affine too
C7_Witness ==
    /\ Modulus > 3 /\ NonSingular
    /\ call.op = "add" /\ call.tag = "Ok"
    /\ call.lhs = P /\ call.rhs = Q
    /\ IsAffine(P) /\ IsAffine(Q) /\ IsAffine(R)
    /\ InField(P) /\ InField(Q) /\ InField(R)
    /\ P.coords[2] # Q.coords[2]
    /\ R.coords[2] # P.coords[2] /\ R.coords[2] # Q.coords[2]
    /\ IsAffine(AddRes(point_add(P, Q), Ok(R)).val)

\* C8: in the field variant P + Q == Q + P for all points that new_point or
\* new_infinity returned on the same curve, and one side aborts only if the
\* other does.
C8_AddCommutative ==
    curve.kind = "field"
    => LET l == point_add(P, Q)
           r == point_add(Q, P)
       IN  /\ l.tag = r.tag
           /\ l.tag = "Ok" => point_eq(l.val, r.val)

\* C9: for every affine point P whose y coordinate is zero, P + P is Infinity
\* and no division is attempted, in both variants.
C9_VerticalTangent ==
    \A pt \in {P, Q} :
        (IsAffine(pt) /\ YIsZero(pt))
        => LET r == AddOf(pt, pt)
           IN  r.tag = "Ok" /\ IsInfinity(r.val.coords) /\ r.divs = <<>>

\* C9 witness: an affine point with y = 0 was added to itself and gave Infinity
C9_Witness ==
    /\ call.op = "add" /\ call.tag = "Ok"
    /\ IsAffine(call.lhs) /\ YIsZero(call.lhs)
    /\ call.rhs = call.lhs
    /\ IsInfinity(P.coords)

\* C10: two affine points of the same curve with the same x coordinate and
\* different y coordinates add up to Infinity, in both variants.
C10_VerticalChord ==
    (/\ IsAffine(P) /\ IsAffine(Q)
     /\ P.coords[2] = Q.coords[2]
     /\ P.coords[3] # Q.coords[3])
    => LET r == AddOf(P, Q)
       IN  r.tag = "Ok" /\ IsInfinity(r.val.coords)

\* C10 witness: two affine points with the same x and different y were added
\* and gave Infinity
C10_Witness ==
    /\ call.op = "add" /\ call.tag = "Ok"
    /\ IsAffine(call.lhs) /\ IsAffine(call.rhs)
    /\ call.lhs.coords[2] = call.rhs.coords[2]
    /\ call.lhs.coords[3] # call.rhs.coords[3]
    /\ IsInfinity(P.coords)

\* C11: adding two points bound to different curves returns the recoverable
\* error DifferentCurves to the caller; it neither aborts the process nor
\* yields a point.
C11_DifferentCurvesAddFails ==
    (call.op = "add" /\ call.lhs.curve # call.rhs.curve)
    => (call.tag = "Err" /\ status = "running")

\* C12: comparing two points bound to different curves never evaluates to
\* equal (Infinity equals only Infinity of the same curve) and never aborts the
\* process: the comparison is reported as a recoverable DifferentCurves failure.
C12_DifferentCurvesNeverEqual ==
    (call.op = "eq" /\ call.lhs.curve # call.rhs.curve)
    => (call.tag # "true" /\ status = "running")

\* pt is Infinity or a point of the curve of the run with coordinates in 0 .. p-1
ValidPoint(pt) ==
    IF IsInfinity(pt.coords) THEN TRUE
    ELSE InField(pt) /\ OnCurveMod(pt.coords[2].num, pt.coords[3].num)

\* C13: for every valid point P, P * 0 returns Infinity bound to P's curve and
\* P * 1 returns exactly P, coordinates and curve; neither call aborts.
C13_MulZeroAndOne ==
    (pc # "idle" /\ scalar \in {0, 1} /\ ValidPoint(P))
    => /\ status # "aborted"
       /\ pc = "done"
            => result = (IF scalar = 0 THEN new_infinity(P.curve) ELSE P)

\* the affine coordinates (x, y) over F_223
RefAffine(c) == Affine(FieldElement(c[1], RefPrime), FieldElement(c[2], RefPrime))

\* C14: on y^2 = x^3 + 7 over F_223 the point P = (47,71) has order exactly 21:
\* k * P is affine for 1 <= k <= 20, 21 * P == Infinity and 22 * P == P, by
\* Mul and by repeated addition of P alike, and no product aborts.
C14_OrderTwentyOne ==
    (pc # "idle" /\ P.coords = RefAffine(<<47, 71>>))
    => /\ status # "aborted"
       /\ pc = "done"
            => LET rep == RepeatedAdd(P, scalar)
               IN  /\ rep.tag = "Ok"
                   /\ point_eq(result, rep.val)
                   /\ scalar \in 1..20 => (IsAffine(result) /\ IsAffine(rep.val))
                   /\ scalar = 21 => (/\ point_eq(result, new_infinity(curve))
                                      /\ point_eq(rep.val, new_infinity(curve)))
                   /\ scalar = 22 => (point_eq(result, P) /\ point_eq(rep.val, P))

\* C14 witness: (47,71) * 21 has returned Infinity
C14_Witness ==
    /\ pc = "done" /\ scalar = 21
    /\ P.coords = RefAffine(<<47, 71>>)
    /\ IsInfinity(result.coords)

\* the sums test_add_ec_field_points_different_x expects: <<P, Q, P + Q>>
RefSums ==
    {<<<<192, 105>>, <<17, 56>>, <<170, 142>>>>,
     <<<<170, 142>>, <<60, 139>>, <<220, 181>>>>,
     <<<<47, 71>>, <<17, 56>>, <<215, 68>>>>,
     <<<<143, 98>>, <<76, 66>>, <<47, 71>>>>}

\* C15: on y^2 = x^3 + 7 over F_223 the chord addition gives the reference
\* sums: (192,105) + (17,56) == (170,142), (170,142) + (60,139) == (220,181),
\* (47,71) + (17,56) == (215,68) and (143,98) + (76,66) == (47,71).
C15_ChordReferenceSums ==
    \A v \in RefSums :
        (/\ call.op = "add"
         /\ call.lhs.coords = RefAffine(v[1])
         /\ call.rhs.coords = RefAffine(v[2]))
        => (call.tag = "Ok" /\ R.coords = RefAffine(v[3]))

\* C15 witness: (170,142) + (60,139) was computed and gave (220,181)
C15_Witness ==
    /\ call.op = "add" /\ call.tag = "Ok"
    /\ call.lhs.coords = RefAffine(<<170, 142>>)
    /\ call.rhs.coords = RefAffine(<<60, 139>>)
    /\ R.coords = RefAffine(<<220, 181>>)

\* the last operator call combined two elements of one prime field
SamePrime == arith.lhs.prime = arith.rhs.prime

\* C16: for every prime p, every field element x and every nonzero field
\* element y of the same modulus p, (x / y) * y == x.
C16_DivThenMulIsIdentity ==
    (/\ arith.op = "div" /\ SamePrime
     /\ arith.rhs.num % arith.rhs.prime # 0)
    => (arith.tag = "Ok" /\ FE_mul(elemA, arith.rhs) = arith.lhs)

\* C17: dividing a field element by a field element whose value is 0 fails
\* with a DivisionByZero error; no field element is returned as the quotient.
C17_DivisionByZeroFails ==
    (arith.op = "div" /\ SamePrime /\ arith.rhs.num = 0)
    => (arith.tag = "Err" /\ elemA = arith.lhs)

\* C18: adding, subtracting, multiplying or dividing two field elements with
\* different primes returns the recoverable error MismatchedField; it neither
\* aborts the process nor produces a field element.
C18_MismatchedFieldFails ==
    (arith.op \in {"add", "sub", "mul", "div"} /\ ~SamePrime)
    => (arith.tag = "Err" /\ status = "running")

\* C19: every FieldElement that exists, built by FieldElement::new from any
\* integer or returned by add, sub, mul, div or pow, has 0 <= num < prime.
C19_CanonicalValue ==
    \A el \in {elemA, elemB} : el.num \in 0..(el.prime - 1)

\* C20: for x and y of one prime p with y not congruent to 0 modulo p, whatever
\* integer x was built from, x / y is the element whose value is the least
\* non-negative residue of x * y^(p-2) modulo p.
C20_DivIsLeastResidue ==
    (/\ arith.op = "div" /\ SamePrime
     /\ arith.rhs.num % arith.rhs.prime # 0)
    => LET p == arith.lhs.prime
       IN  /\ arith.tag = "Ok"
           /\ elemA = FieldElement((arith.lhs.num * ModPow(arith.rhs.num, p - 2, p)) % p, p)

\* C21: for two field elements of one prime p, whatever integers they were
\* built from, add, sub and mul return the element whose value is x op y
\* reduced to the least non-negative residue modulo p; a subtraction with
\* x < y wraps to x - y + p.
C21_ArithIsLeastResidue ==
    (arith.op \in {"add", "sub", "mul"} /\ SamePrime)
    => LET p == arith.lhs.prime
           x == arith.lhs.num
           y == arith.rhs.num
           v == IF arith.op = "add" THEN x + y
                ELSE IF arith.op = "sub" THEN x - y
                ELSE x * y
       IN  /\ arith.tag = "Ok"
           /\ elemA = FieldElement(v % p, p)
           /\ elemA.num \in 0..(p - 1)
           /\ (arith.op = "sub" /\ 0 <= x /\ x < y /\ y < p) => elemA.num = x - y + p

\* C21 witness: 2 - 5 was computed in F_7 and gave 4
C21_Witness ==
    /\ arith.op = "sub" /\ arith.tag = "Ok"
    /\ arith.lhs = FieldElement(2, 7) /\ arith.rhs = FieldElement(5, 7)
    /\ elemA = FieldElement(4, 7)

\* C22: for every prime p and every field element x with 1 <= x < p,
\* x.pow(p - 1) is the element 1.
C22_FermatLittle ==
    (/\ arith.op = "pow"
     /\ arith.exp = arith.lhs.prime - 1
     /\ arith.lhs.num \in 1..(arith.lhs.prime - 1))
    => elemA = FieldElement(1, arith.lhs.prime)

\* C22 witness: 3.pow(6) was computed in F_7 and gave 1
C22_Witness ==
    /\ arith.op = "pow" /\ arith.exp = 6
    /\ arith.lhs = FieldElement(3, 7)
    /\ elemA = FieldElement(1, 7)

\* C23: for every prime p the zero element raised to the exponent p - 1 is the
\* zero element.
C23_ZeroPowStaysZero ==
    (/\ arith.op = "pow"
     /\ arith.exp = arith.lhs.prime - 1
     /\ arith.lhs.num = 0)
    => elemA = FE_zero(arith.lhs.prime)

\* C24: pow accepts negative and oversized exponents: for every prime p, every
\* nonzero x of F_p and every k >= 0, x.pow(-k) has its value in 0 .. p-1 and
\* x.pow(-k) * x.pow(k) == 1.
C24_NegativeExponentInverts ==
    (/\ arith.op = "pow" /\ arith.exp <= 0
     /\ arith.lhs.num % arith.lhs.prime # 0)
    => LET p == arith.lhs.prime
       IN  /\ elemA.prime = p
           /\ elemA.num \in 0..(p - 1)
           /\ FE_mul(elemA, FE_pow(arith.lhs, -arith.exp)) = FieldElement(1, p)

\* C24 witness: 3.pow(-2) was computed in F_7 and gave 4, the inverse of 3.pow(2) = 2
C24_Witness ==
    /\ arith.op = "pow" /\ arith.exp = -2
    /\ arith.lhs = FieldElement(3, 7)
    /\ elemA = FieldElement(4, 7)

\* the fully initialized value of a static: its closure applied to the fully
\* initialized values of the statics it reads
RECURSIVE Expected(_)
Expected(c) ==
    InitValue(c, [d \in Statics |->
                    IF \E i \in 1..Len(Deps(c)) : Deps(c)[i] = d
                    THEN <<Expected(d)>> ELSE <<>>])

\* each closure has run at most once, and exactly once for a complete cell; a
\* complete cell holds the fully initialized value, any other cell none; what
\* a deref returned to a thread is the fully initialized value
LazySafe ==
    /\ \A c \in Statics :
          /\ initRuns[c] <= 1
          /\ (cellState[c] = "complete") <=> (initRuns[c] = 1)
          /\ cellValue[c] = IF cellState[c] = "complete" THEN <<Expected(c)>> ELSE <<>>
    /\ \A t \in Threads :
          observed[t] # <<>> => observed[t][2] = Expected(observed[t][1])

\* C25: under any interleaving of threads that dereference the secp256k1
\* statics for the first time concurrently, each initializer runs exactly
\* once, every reader sees the same fully initialized value, no value changes
\* afterwards, and every dereference returns (the chain of dependencies
\* generator -> curve, gx, gy -> a, b -> prime has no cycle).
C25_LazyInitOnce ==
    /\ []LazySafe
    /\ [][\A c \in Statics : cellValue[c] # <<>> => cellValue'[c] = cellValue[c]]_vars
    /\ \A t \in Threads : (frames[t] # <<>>) ~> (frames[t] = <<>>)

\* C25 witness: a thread is blocked on a static that another thread is
\* initializing, both having dereferenced it before it was complete
C25_Witness ==
    \E t \in Threads, u \in Threads :
        /\ t # u
        /\ frames[t] # <<>> /\ frames[u] # <<>>
        /\ Top(t)[2] = 0
        /\ cellState[Top(t)[1]] = "running"
        /\ \E i \in 1..Len(frames[u]) :
              frames[u][i][1] = Top(t)[1] /\ frames[u][i][2] >= 1

\* C27: in the const-generic Point of point.rs, doubling an affine point
\* (x1, y1) with y1 # 0 uses the slope (3*x1^2 + A) divided by (2*y1), the
\* slope the curve-bound integer variant computes, and returns what that
\* variant returns, for every valid point.
C27_ConstGenericTangentSlope ==
    (/\ curve.kind = "const" /\ call.op = "add"
     /\ IsAffine(call.lhs) /\ call.rhs = call.lhs
     /\ call.lhs.coords[3] # 0)
    => LET x1 == call.lhs.coords[2]
           y1 == call.lhs.coords[3]
           bound == int_add_doubling(RealWeierstrassCurve(curve.a, curve.b), x1, y1)
       IN  /\ cg_slope(curve.a, x1, y1) = TruncDiv(3 * IntPow(x1, 2) + curve.a, 2 * y1)
           /\ call.tag = bound.tag
           /\ call.tag = "Ok" => P.coords = bound.val.coords

\* C28: every curve that can be constructed, and every curve carried by a
\* point made with new_point or new_infinity, has its coefficients a and b in
\* the same field (same prime).
C28_CoefficientsShareField ==
    /\ curve.a.prime = curve.b.prime
    /\ \A pt \in {P, Q} : pt.curve.a.prime = pt.curve.b.prime

\* C29: during the field-based addition of two points returned by new_point
\* on the same curve, over any prime p (2 included), the divisor handed to the
\* division of field elements is never congruent to zero: neither 2*y1 in the
\* doubling arm nor x2 - x1 in the chord arm.
C29_DivisorNeverZero ==
    curve.kind = "field"
    => LET r == point_add(P, Q)
       IN  \A i \in 1..Len(r.divs) :
               ~IsFieldPanic(r.divs[i]) /\ r.divs[i].num % Modulus # 0

\* C30: for a negative scalar the double-and-add loop never reaches a
\* remaining scalar of zero: the shifted scalar stays negative and settles at
\* -1 within BitLen(-k) iterations, so Mul never leaves the loop and returns
\* no point.
C30_NegativeScalarNeverReturns ==
    (pc # "idle" /\ scalar < 0)
    => /\ pc = "loop"
       /\ coeff < 0 /\ coeff >= scalar
       /\ iters >= BitLen(-scalar) => coeff = -1

\* C30 witness: Mul was called with -2, has gone through three iterations and
\* its remaining scalar is -1
C30_Witness ==
    /\ pc = "loop" /\ status = "running"
    /\ scalar = -2 /\ iters >= 3 /\ coeff = -1

====
